---- MODULE Spec2Model ----
(***************************************************************************)
(* A model of github.com/rickb777/iso8601: the zone parser ParseISOZone,   *)
(* the date-time scanner Parse with its range validation and fraction      *)
(* normalisation, and the text/JSON codec of iso8601.Time.                 *)
(*                                                                         *)
(* A byte is a string: an ASCII byte is the one-character string of that   *)
(* character, a non-ASCII byte is its two-digit hexadecimal value          *)
(* ("E2", "88", "92" are the UTF-8 bytes of U+2212).  A byte slice is a    *)
(* sequence of bytes; Go's 0-based index i is position i+1 here.           *)
(***************************************************************************)
EXTENDS Integers, Sequences, FiniteSets, TLC

VARIABLES
    pc,     \* position of the running call: which operation is next
    src,    \* the description the input bytes were rendered from
    inp,    \* the input bytes of Parse / ParseISOZone
    st,     \* Parse's locals: Y M d h m s fraction nfraction c p i loc
    res,    \* the value a finished call returned
    x,      \* the Time being marshalled
    format, \* the package variable MarshalTextFormat
    text,   \* the bytes the last Marshal call returned
    dest    \* the destination Time of an Unmarshal call

vars == <<pc, src, inp, st, res, x, format, text, dest>>

----------------------------------------------------------------------------
(* Bytes and runes *)

Digits == {"0", "1", "2", "3", "4", "5", "6", "7", "8", "9"}

DigitVal(b) ==
    CASE b = "0" -> 0 [] b = "1" -> 1 [] b = "2" -> 2 [] b = "3" -> 3
      [] b = "4" -> 4 [] b = "5" -> 5 [] b = "6" -> 6 [] b = "7" -> 7
      [] b = "8" -> 8 [] b = "9" -> 9

NonASCII == {"E2", "88", "92", "AA", "BB"}

MinusUTF8 == <<"E2", "88", "92">>

\* utf8.DecodeRune: the first rune of inp and its width in bytes.
DecodeRune(b) ==
    IF Len(b) = 0 THEN [r |-> "RuneError", size |-> 0]
    ELSE IF b[1] \notin NonASCII THEN [r |-> b[1], size |-> 1]
    ELSE IF Len(b) >= 3 /\ SubSeq(b, 1, 3) = MinusUTF8
         THEN [r |-> "U+2212", size |-> 3]
    ELSE [r |-> "RuneError", size |-> 1]

----------------------------------------------------------------------------
(* Locations: time.UTC and time.FixedZone(name, offset) *)

UTC == [name |-> <<"U", "T", "C">>, offset |-> 0]

FixedZone(name, offset) == [name |-> name, offset |-> offset]

NoLocation == [name |-> <<>>, offset |-> 0]

----------------------------------------------------------------------------
(* ParseISOZone *)

ZoneOK(loc) == [err |-> "nil", char |-> "", loc |-> loc]

ZoneErr(e, ch) == [err |-> e, char |-> ch, loc |-> NoLocation]

\* the switch on the first rune: which runes set neg
IsNegSign(r) == r \in {"-", "U+2212"}

IsSign(r) == r = "+" \/ IsNegSign(r)

\* ZoneTooShort with the limit one byte lower
ZoneTooShort_Under(b) == Len(b) < 2

\* the length test made once the sign is known
ZoneTooShort(b) == Len(b) < 3

ZoneLoopInit ==
    [i |-> 0, z |-> 0, digits |-> 0, offset |-> 0, multiplier |-> 3600,
     err |-> "nil", char |-> ""]

\* ZoneAdvance that keeps the multiplier of the previous group
ZoneAdvance_KeepMultiplier(zs) ==
    IF zs.i = 2 \/ zs.i = 5
    THEN [zs EXCEPT !.offset = @ + zs.z * zs.multiplier,
                    !.z = 0,
                    !.digits = 0]
    ELSE [zs EXCEPT !.z = @ * 10]

\* the head of one iteration: too long, next multiplier, or next digit
ZoneAdvance(zs) ==
    IF zs.i = 2 \/ zs.i = 5
    THEN [zs EXCEPT !.offset = @ + zs.z * zs.multiplier,
                    !.multiplier = @ \div 60,
                    !.z = 0,
                    !.digits = 0]
    ELSE [zs EXCEPT !.z = @ * 10]

\* ZoneLoop that ends at the first byte that is neither a digit nor a colon
RECURSIVE ZoneLoop_StopsAtOther(_, _)
ZoneLoop_StopsAtOther(number, zs) ==
    IF zs.i >= Len(number) THEN zs
    ELSE IF zs.digits > 2 THEN [zs EXCEPT !.err = "ErrZoneTooLong"]
    ELSE LET a == ZoneAdvance(zs)
             b == number[zs.i + 1]
         IN  IF b \in Digits
             THEN ZoneLoop_StopsAtOther(number, [a EXCEPT !.z = @ + DigitVal(b),
                                                          !.digits = @ + 1,
                                                          !.i = @ + 1])
             ELSE IF b = ":"
             THEN IF a.i # 2 /\ a.i # 5
                  THEN [a EXCEPT !.err = "UnexpectedCharacterError", !.char = b]
                  ELSE ZoneLoop_StopsAtOther(number, [a EXCEPT !.digits = 0,
                                                               !.i = @ + 1])
             ELSE zs

\* the for loop over number = inp[i:]
RECURSIVE ZoneLoop(_, _)
ZoneLoop(number, zs) ==
    IF zs.i >= Len(number) THEN zs
    ELSE IF zs.digits > 2 THEN [zs EXCEPT !.err = "ErrZoneTooLong"]
    ELSE LET a == ZoneAdvance(zs)
             b == number[zs.i + 1]
         IN  IF b \in Digits
             THEN ZoneLoop(number, [a EXCEPT !.z = @ + DigitVal(b),
                                             !.digits = @ + 1,
                                             !.i = @ + 1])
             ELSE IF b = ":"
             THEN IF a.i # 2 /\ a.i # 5
                  THEN [a EXCEPT !.err = "UnexpectedCharacterError", !.char = b]
                  ELSE ZoneLoop(number, [a EXCEPT !.digits = 0, !.i = @ + 1])
             ELSE [a EXCEPT !.err = "UnexpectedCharacterError", !.char = b]

\* ZoneFinish without the test for a negative zero
ZoneFinish_NoNegativeZero(b, neg, zs) ==
    LET total  == zs.offset + zs.z * zs.multiplier
        offset == IF neg THEN 0 - total ELSE total
    IN  IF zs.digits # 2 THEN ZoneErr("ErrInvalidZone", "")
        ELSE ZoneOK(FixedZone(b, offset))

\* after the loop: the last group, the digit count, the sign, negative zero
ZoneFinish(b, neg, zs) ==
    LET total  == zs.offset + zs.z * zs.multiplier
        offset == IF neg THEN 0 - total ELSE total
    IN  IF zs.digits # 2 THEN ZoneErr("ErrInvalidZone", "")
        ELSE IF neg /\ offset = 0 THEN ZoneErr("ErrInvalidZone", "")
        ELSE ZoneOK(FixedZone(b, offset))

ParseISOZone(b) ==
    LET dr == DecodeRune(b)
    IN  IF dr.r = "Z" THEN ZoneOK(UTC)
        ELSE IF ~IsSign(dr.r)
        THEN ZoneErr("UnexpectedCharacterError",
                     IF dr.r = "RuneError" THEN "?" ELSE dr.r)
        ELSE IF ZoneTooShort(b) THEN ZoneErr("ErrZoneTooShort", "")
        ELSE LET zs == ZoneLoop(SubSeq(b, dr.size + 1, Len(b)), ZoneLoopInit)
             IN  IF zs.err # "nil" THEN ZoneErr(zs.err, zs.char)
                 ELSE ZoneFinish(b, IsNegSign(dr.r), zs)

----------------------------------------------------------------------------
(* Time values: the calendar fields shown in the value's own zone *)

Nano == 1000000000

MkTime(Y, M, d, h, m, s, ns, loc) ==
    [Year |-> Y, Month |-> M, Day |-> d, Hour |-> h, Minute |-> m,
     Second |-> s, Nanosecond |-> ns, loc |-> loc]

\* Time{}: January 1, year 1, 00:00:00 UTC
ZeroTime == MkTime(1, 1, 1, 0, 0, 0, 0, UTC)

isLeapYear(Y) == Y % 4 = 0 /\ (Y % 100 # 0 \/ Y % 400 = 0)

daysIn(M, Y) ==
    IF M = 2 THEN (IF isLeapYear(Y) THEN 29 ELSE 28)
    ELSE IF M \in {4, 6, 9, 11} THEN 30
    ELSE 31

\* norm of package time: hi, lo with lo brought into [0, base)
NormHi(hi, lo, base) == hi + (lo \div base)

NormLo(lo, base) == lo % base

\* a day outside its month moves to the neighbouring month
RECURSIVE NormDay(_, _, _)
NormDay(Y, M, d) ==
    IF d > daysIn(M, Y)
    THEN (IF M = 12 THEN NormDay(Y + 1, 1, d - daysIn(M, Y))
          ELSE NormDay(Y, M + 1, d - daysIn(M, Y)))
    ELSE IF d < 1
    THEN (IF M = 1 THEN NormDay(Y - 1, 12, d + daysIn(12, Y - 1))
          ELSE NormDay(Y, M - 1, d + daysIn(M - 1, Y)))
    ELSE [Y |-> Y, M |-> M, d |-> d]

\* Date: time.Date normalises every field that is outside its range
Date(Y, M, d, h, m, s, ns, loc) ==
    LET Y1  == NormHi(Y, M - 1, 12)
        M1  == NormLo(M - 1, 12) + 1
        s1  == NormHi(s, ns, Nano)
        ns1 == NormLo(ns, Nano)
        m1  == NormHi(m, s1, 60)
        s2  == NormLo(s1, 60)
        h1  == NormHi(h, m1, 60)
        m2  == NormLo(m1, 60)
        d1  == NormHi(d, h1, 24)
        h2  == NormLo(h1, 24)
        nd  == NormDay(Y1, M1, d1)
    IN  MkTime(nd.Y, nd.M, nd.d, h2, m2, s2, ns1, loc)

----------------------------------------------------------------------------
(* Parse: the scan *)

year == 0
month == 1
day == 2
hour == 3
minute == 4
second == 5
millisecond == 6

ScanInit ==
    [Y |-> 0, M |-> 0, d |-> 0, h |-> 0, m |-> 0, s |-> 0,
     fraction |-> 0, nfraction |-> 1, c |-> 0, p |-> year, i |-> 0,
     loc |-> UTC, status |-> "scan", err |-> "nil", char |-> ""]

Unexpected(s, b) ==
    [s EXCEPT !.status = "err", !.err = "UnexpectedCharacterError", !.char = b]

\* case '0'..'9'
ScanDigit(s, b) ==
    [s EXCEPT !.c = s.c * 10 + DigitVal(b),
              !.nfraction = IF s.p = millisecond THEN @ + 1 ELSE @,
              !.i = @ + 1]

\* case '-' while p < hour: a date separator
ScanDateDash(s, b) ==
    IF s.p = year
    THEN [s EXCEPT !.Y = s.c, !.p = @ + 1, !.c = 0, !.i = @ + 1]
    ELSE IF s.p = month
    THEN [s EXCEPT !.M = s.c, !.p = @ + 1, !.c = 0, !.i = @ + 1]
    ELSE Unexpected(s, b)

\* StoreAtZone whose case second assigns m, as the case of ':' does
StoreAtZone_SecondIntoMinute(s) ==
    IF s.p = hour THEN [s EXCEPT !.h = s.c]
    ELSE IF s.p = minute THEN [s EXCEPT !.m = s.c]
    ELSE IF s.p = second THEN [s EXCEPT !.m = s.c]
    ELSE [s EXCEPT !.fraction = s.c]

\* case '+' (and '-' once p >= hour): the field switch before the zone call
StoreAtZone(s) ==
    IF s.p = hour THEN [s EXCEPT !.h = s.c]
    ELSE IF s.p = minute THEN [s EXCEPT !.m = s.c]
    ELSE IF s.p = second THEN [s EXCEPT !.s = s.c]
    ELSE [s EXCEPT !.fraction = s.c]

ScanZone(s, b, input) ==
    IF s.p \notin {hour, minute, second, millisecond} THEN Unexpected(s, b)
    ELSE LET a  == [StoreAtZone(s) EXCEPT !.c = 0]
             zr == ParseISOZone(SubSeq(input, s.i + 1, Len(input)))
         IN  IF zr.err # "nil"
             THEN [a EXCEPT !.status = "err", !.err = zr.err, !.char = zr.char]
             ELSE [a EXCEPT !.loc = zr.loc, !.status = "break"]

\* ScanT that moves the cursor past the hour
ScanT_SkipsHour(s, b) ==
    IF s.p # day THEN Unexpected(s, b)
    ELSE [s EXCEPT !.d = s.c, !.c = 0, !.p = @ + 2, !.i = @ + 1]

\* case 'T'
ScanT(s, b) ==
    IF s.p # day THEN Unexpected(s, b)
    ELSE [s EXCEPT !.d = s.c, !.c = 0, !.p = @ + 1, !.i = @ + 1]

\* case ':': the field switch
StoreAtColon(s) ==
    IF s.p = hour THEN [s EXCEPT !.h = s.c]
    ELSE IF s.p = minute THEN [s EXCEPT !.m = s.c]
    ELSE [s EXCEPT !.m = s.c]

ScanColon(s, b) ==
    IF s.p \notin {hour, minute, second} THEN Unexpected(s, b)
    ELSE [StoreAtColon(s) EXCEPT !.c = 0, !.p = @ + 1, !.i = @ + 1]

\* ScanDot that takes the dot at any cursor
ScanDot_AnyCursor(s, b) ==
    [s EXCEPT !.s = s.c, !.c = 0, !.p = @ + 1, !.i = @ + 1]

\* case '.'
ScanDot(s, b) ==
    IF s.p # second THEN Unexpected(s, b)
    ELSE [s EXCEPT !.s = s.c, !.c = 0, !.p = @ + 1, !.i = @ + 1]

\* case 'Z': the field switch
StoreAtZ(s) ==
    IF s.p = hour THEN [s EXCEPT !.h = s.c]
    ELSE IF s.p = minute THEN [s EXCEPT !.m = s.c]
    ELSE IF s.p = second THEN [s EXCEPT !.s = s.c]
    ELSE [s EXCEPT !.fraction = s.c]

\* ScanZ that does not look at what follows the Z
ScanZ_IgnoreRest(s, b, input) ==
    IF s.p \notin {hour, minute, second, millisecond} THEN Unexpected(s, b)
    ELSE [StoreAtZ(s) EXCEPT !.c = 0, !.i = @ + 1]

ScanZ(s, b, input) ==
    IF s.p \notin {hour, minute, second, millisecond} THEN Unexpected(s, b)
    ELSE LET a == [StoreAtZ(s) EXCEPT !.c = 0]
         IN  IF Len(input) # s.i + 1
             THEN [a EXCEPT !.status = "err", !.err = "ErrRemainingData"]
             ELSE [a EXCEPT !.i = @ + 1]

\* one iteration of the loop labelled parse, on the byte inp[i]
ScanStep(s, input) ==
    LET b == input[s.i + 1]
    IN  IF b \in Digits THEN ScanDigit(s, b)
        ELSE IF b = "-" /\ s.p < hour THEN ScanDateDash(s, b)
        ELSE IF b = "-" \/ b = "+" THEN ScanZone(s, b, input)
        ELSE IF b = "T" THEN ScanT(s, b)
        ELSE IF b = ":" THEN ScanColon(s, b)
        ELSE IF b = "." THEN ScanDot(s, b)
        ELSE IF b = "Z" THEN ScanZ(s, b, input)
        ELSE Unexpected(s, b)

\* the loop runs while no return or break happened and i < len(inp)
Scanning(s, input) == s.status = "scan" /\ s.i < Len(input)

RECURSIVE ScanAll(_, _)
ScanAll(s, input) ==
    IF Scanning(s, input) THEN ScanAll(ScanStep(s, input), input) ELSE s

----------------------------------------------------------------------------
(* Parse: after the scan *)

ParseOK(t) ==
    [err |-> "nil", char |-> "", elem |-> "", given |-> 0, min |-> 0,
     max |-> 0, value |-> <<>>, time |-> t]

ParseErr(e, ch) ==
    [err |-> e, char |-> ch, elem |-> "", given |-> 0, min |-> 0,
     max |-> 0, value |-> <<>>, time |-> ZeroTime]

RangeError(value, elem, given, lo, hi) ==
    [err |-> "RangeError", char |-> "", elem |-> elem, given |-> given,
     min |-> lo, max |-> hi, value |-> value, time |-> ZeroTime]

\* CaptureRemaining without the case day
CaptureRemaining_NoDay(s) ==
    IF s.c > 0
    THEN (IF s.p = hour THEN [s EXCEPT !.h = s.c]
          ELSE IF s.p = minute THEN [s EXCEPT !.m = s.c]
          ELSE IF s.p = second THEN [s EXCEPT !.s = s.c]
          ELSE IF s.p = millisecond THEN [s EXCEPT !.fraction = s.c]
          ELSE s)
    ELSE s

\* "Capture remaining data"
CaptureRemaining(s) ==
    IF s.c > 0
    THEN (IF s.p = day THEN [s EXCEPT !.d = s.c]
          ELSE IF s.p = hour THEN [s EXCEPT !.h = s.c]
          ELSE IF s.p = minute THEN [s EXCEPT !.m = s.c]
          ELSE IF s.p = second THEN [s EXCEPT !.s = s.c]
          ELSE IF s.p = millisecond THEN [s EXCEPT !.fraction = s.c]
          ELSE s)
    ELSE s

PrecisionError(s) == s.fraction < 0 \/ Nano <= s.fraction

RECURSIVE TimesTen(_, _)
TimesTen(n, k) == IF k <= 0 THEN n ELSE TimesTen(n * 10, k - 1)

\* ScaleFraction that takes nfraction for the number of fraction digits
ScaleFraction_CountFromZero(s) == TimesTen(s.fraction, 9 - s.nfraction)

\* "Get the seconds fraction as nanoseconds"
ScaleFraction(s) == TimesTen(s.fraction, 10 - s.nfraction)

MonthOutOfRange(s) == s.M < 1 \/ s.M > 12

\* DayOutOfRange with 31 days in every month
DayOutOfRange_AnyMonth(s) == s.d < 1 \/ s.d > 31

DayOutOfRange(s) == s.d < 1 \/ s.d > daysIn(s.M, s.Y)

\* HourOutOfRange that lets hour 24 pass
HourOutOfRange_Allow24(s) == s.h > 24

HourOutOfRange(s) == s.h > 23

MinuteOutOfRange(s) == s.m > 59

\* SecondOutOfRange that lets the leap second 60 pass
SecondOutOfRange_Allow60(s) == s.s > 60

SecondOutOfRange(s) == s.s > 59

\* the switch over the fields, first failing case wins
Validate(s, input) ==
    IF MonthOutOfRange(s) THEN RangeError(input, "month", s.M, 1, 12)
    ELSE IF DayOutOfRange(s)
    THEN RangeError(input, "day", s.d, 1, daysIn(s.M, s.Y))
    ELSE IF HourOutOfRange(s) THEN RangeError(input, "hour", s.h, 0, 23)
    ELSE IF MinuteOutOfRange(s) THEN RangeError(input, "minute", s.m, 0, 59)
    ELSE IF SecondOutOfRange(s) THEN RangeError(input, "second", s.s, 0, 59)
    ELSE ParseOK(Date(s.Y, s.M, s.d, s.h, s.m, s.s, ScaleFraction(s), s.loc))

\* everything Parse does once the loop has been left without a return
PostScan(s, input) ==
    LET a == CaptureRemaining(s)
    IN  IF PrecisionError(a) THEN ParseErr("ErrPrecision", "")
        ELSE Validate(a, input)

Parse(input) ==
    LET s == ScanAll(ScanInit, input)
    IN  IF s.status = "err" THEN ParseErr(s.err, s.char)
        ELSE PostScan(s, input)

----------------------------------------------------------------------------
(* The codec of Time: MarshalText, MarshalJSON, UnmarshalText, UnmarshalJSON *)

RFC3339 == "RFC3339"
RFC3339Milli == "RFC3339Milli"
RFC3339Micro == "RFC3339Micro"
RFC3339Nano == "RFC3339Nano"

Formats == {RFC3339, RFC3339Milli, RFC3339Micro, RFC3339Nano}

\* the number of 9s after the dot in the layout
FracDigits(f) ==
    CASE f = RFC3339 -> 0 [] f = RFC3339Milli -> 3
      [] f = RFC3339Micro -> 6 [] f = RFC3339Nano -> 9

DigitByte(k) == <<"0", "1", "2", "3", "4", "5", "6", "7", "8", "9">>[k + 1]

RECURSIVE DigitsOf(_)
DigitsOf(n) ==
    IF n < 10 THEN <<DigitByte(n)>>
    ELSE DigitsOf(n \div 10) \o <<DigitByte(n % 10)>>

RECURSIVE ZeroPad(_, _)
ZeroPad(ds, w) == IF Len(ds) >= w THEN ds ELSE ZeroPad(<<"0">> \o ds, w)

\* appendInt of package time: n >= 0 in decimal, zero-padded to width w
AppendInt(n, w) == ZeroPad(DigitsOf(n), w)

RECURSIVE TrimZeros(_)
TrimZeros(ds) ==
    IF Len(ds) > 0 /\ ds[Len(ds)] = "0" THEN TrimZeros(SubSeq(ds, 1, Len(ds) - 1))
    ELSE ds

\* the layout element .999...: n digits at most, trailing zeros and an
\* orphaned dot dropped
AppendNano(ns, n) ==
    IF n = 0 \/ ns = 0 THEN <<>>
    ELSE LET ds == TrimZeros(SubSeq(AppendInt(ns, 9), 1, n))
         IN  IF ds = <<>> THEN <<>> ELSE <<".">> \o ds

\* the layout element Z07:00: Z for offset 0, else sign hh:mm of the
\* offset in whole minutes (Go's / and % truncate towards zero)
AppendZone(offset) ==
    IF offset = 0 THEN <<"Z">>
    ELSE LET mag  == IF offset < 0 THEN 0 - offset ELSE offset
             zone == mag \div 60
             sign == IF offset < 0 /\ zone > 0 THEN "-" ELSE "+"
         IN  <<sign>> \o AppendInt(zone \div 60, 2) \o <<":">>
                      \o AppendInt(zone % 60, 2)

\* t.AppendFormat(b, MarshalTextFormat) for the four layouts
AppendFormat(t, f) ==
    AppendInt(t.Year, 4) \o <<"-">> \o AppendInt(t.Month, 2) \o <<"-">>
        \o AppendInt(t.Day, 2) \o <<"T">> \o AppendInt(t.Hour, 2) \o <<":">>
        \o AppendInt(t.Minute, 2) \o <<":">> \o AppendInt(t.Second, 2)
        \o AppendNano(t.Nanosecond, FracDigits(f)) \o AppendZone(t.loc.offset)

\* YearOutOfRange that lets the year 10000 pass
YearOutOfRange_Allow10000(t) == t.Year < 0 \/ t.Year > 10000

YearOutOfRange(t) == t.Year < 0 \/ t.Year >= 10000

MarshalText(t, f) ==
    IF YearOutOfRange(t) THEN [err |-> "year outside of range", bytes |-> <<>>]
    ELSE [err |-> "nil", bytes |-> AppendFormat(t, f)]

MarshalJSON(t, f) ==
    IF YearOutOfRange(t) THEN [err |-> "year outside of range", bytes |-> <<>>]
    ELSE [err |-> "nil", bytes |-> <<"\"">> \o AppendFormat(t, f) \o <<"\"">>]

\* UnmarshalText: the error returned and the destination afterwards
UnmarshalText(t, data) ==
    LET r == Parse(data)
    IN  [err |-> r.err, dest |-> IF r.err = "nil" THEN r.time ELSE t]

null(b) ==
    IF Len(b) # 4 THEN FALSE
    ELSE IF b[1] # "n" /\ b[2] # "u" /\ b[3] # "l" /\ b[4] # "l" THEN FALSE
    ELSE TRUE

IsQuoted(b) == Len(b) > 0 /\ b[1] = "\"" /\ b[Len(b)] = "\""

\* whether UnmarshalJSON reaches its call of Parse
UnmarshalJSONParses(b) == ~null(b) /\ IsQuoted(b) /\ Len(b) >= 2

\* UnmarshalJSON that takes null for the zero Time
UnmarshalJSON_NullResets(t, b) ==
    IF null(b) THEN [err |-> "nil", dest |-> ZeroTime]
    ELSE IF ~IsQuoted(b) THEN [err |-> "ErrNotString", dest |-> t]
    ELSE IF Len(b) < 2 THEN [err |-> "panic: slice bounds out of range", dest |-> t]
    ELSE LET r == Parse(SubSeq(b, 2, Len(b) - 1))
         IN  [err |-> r.err, dest |-> r.time]

\* UnmarshalJSON: the error returned and the destination afterwards
UnmarshalJSON(t, b) ==
    IF null(b) THEN [err |-> "nil", dest |-> t]
    ELSE IF ~IsQuoted(b) THEN [err |-> "ErrNotString", dest |-> t]
    ELSE IF Len(b) < 2 THEN [err |-> "panic: slice bounds out of range", dest |-> t]
    ELSE LET r == Parse(SubSeq(b, 2, Len(b) - 1))
         IN  [err |-> r.err, dest |-> r.time]

\* Time.Truncate for a resolution that divides one second
Truncate(t, r) == [t EXCEPT !.Nanosecond = @ - (@ % r)]

----------------------------------------------------------------------------
(* The inputs the calls are run on.  No digit run is longer than ten       *)
(* digits and none exceeds 2^31 - 1, so every value stays inside Go's int.   *)

MaxZoneBody == 8
MaxFracDigits == 9

None == [err |-> "none"]

\* every byte string over S of length at most n
SeqsUpTo(S, n) == UNION {[1..k -> S] : k \in 0..n}

ZoneAlphabet == {"0", "1", ":"}

ZonePrefixes == {<<"+">>, <<"-">>, MinusUTF8, <<>>}

OddZoneInputs ==
    {<<"Z">>, <<"Z", "x">>, <<"AA", "BB">>, <<"-", "f", "o", "o">>,
     <<"+", "0", "5", ":", "0", "1", ":", "0", "1">>,
     <<"+", "0", "5", "3", "0">>, <<"-", "0", "3">>, <<"+", "9", "9", ":", "9", "9">>,
     <<"+", "1", "2", "3", "4", "5", "6", "7", "8">>, <<"+", "0", "1", "x">>,
     <<"E2", "88">>, <<"+", "0", "1", ":", "0", "0", "Z">>,
     <<"+", "0", "1", ":", "0", "0", " ">>,
     <<"+", "0", "1", ":", "0", "0", ":", "0", "0", "x">>,
     <<"-", "0", "1", "0", "0", "Z">>, <<"+", "0", "1", " ">>}

ZoneInputs ==
    {pre \o body : pre \in ZonePrefixes, body \in SeqsUpTo(ZoneAlphabet, MaxZoneBody)}
        \cup OddZoneInputs

\* the date-time the zone token follows when it reaches the zone parser
\* through Parse
ZoneBody ==
    <<"2", "0", "1", "7", "-", "0", "4", "-", "2", "4", "T",
      "0", "9", ":", "4", "1", ":", "3", "4", ".", "5", "0", "2">>

\* a description of a date-time text: the digit runs Y M D h mi s f, the
\* number nd of date fields written (1: Y, 2: Y-M, 3: Y-M-D), the number n
\* of time fields written (0: none, 1: h, 2: h:mi, 3: h:mi:s, 4: h:mi:s.f),
\* T: whether a date without time ends in 'T', the zone token z and the
\* bytes tail that follow
Case(Y, M, D, T, n, h, mi, s, f, z, tail) ==
    [Y |-> Y, M |-> M, D |-> D, nd |-> 3, T |-> T, n |-> n, h |-> h,
     mi |-> mi, s |-> s, f |-> f, z |-> z, tail |-> tail]

Render(c) ==
    c.Y \o (IF c.nd >= 2 THEN <<"-">> \o c.M ELSE <<>>)
        \o (IF c.nd >= 3 THEN <<"-">> \o c.D ELSE <<>>)
        \o (IF c.n >= 1 \/ c.T THEN <<"T">> ELSE <<>>)
        \o (IF c.n >= 1 THEN c.h ELSE <<>>)
        \o (IF c.n >= 2 THEN <<":">> \o c.mi ELSE <<>>)
        \o (IF c.n >= 3 THEN <<":">> \o c.s ELSE <<>>)
        \o (IF c.n >= 4 THEN <<".">> \o c.f ELSE <<>>)
        \o c.z \o c.tail

YearRuns == {AppendInt(y, 4) : y \in {0, 1900, 2000, 2017, 2019, 2020}}

MonthRuns == {AppendInt(k, 2) : k \in {0, 1, 2, 4, 12, 13}}

DayRuns == {AppendInt(k, 2) : k \in {0, 1, 28, 29, 30, 31, 32}}

HourRuns == {AppendInt(k, 2) : k \in {0, 9, 23, 24}} \cup {<<"9">>}

MinuteRuns == {AppendInt(k, 2) : k \in {41, 59, 60}}

SecondRuns == {AppendInt(k, 2) : k \in {34, 59, 60}}

FracSource == <<"1", "2", "3", "4", "5", "6", "7", "8", "9", "1", "2">>

\* fractions of ten digits: more than a nanosecond can hold
LongFracRuns ==
    {<<"0", "0", "0", "0", "0", "0", "0", "0", "0", "1">>,
     <<"0", "9", "9", "9", "9", "9", "9", "9", "9", "9">>,
     <<"1", "0", "0", "0", "0", "0", "0", "0", "0", "0">>,
     <<"1", "2", "3", "4", "5", "6", "7", "8", "9", "1">>}

FracRuns ==
    {SubSeq(FracSource, 1, k) : k \in 0..MaxFracDigits}
        \cup {<<"0", "0", "9">>, <<"5", "0", "2">>, <<"0", "0", "0">>,
              <<"8", "9", "3", "1", "2", "5", "2", "3">>, <<"5">>}
        \cup LongFracRuns

ZoneTokens ==
    {<<>>, <<"Z">>,
     <<"+", "0", "1", ":", "0", "0">>, <<"-", "0", "1", "0", "0">>,
     <<"+", "0", "0">>, <<"-", "0", "0">>, <<"+", "0", "0", ":", "0", "0">>,
     <<"+", "0", "5", ":", "0", "1", ":", "0", "1">>,
     <<"-", "0", "5", ":", "3", "0">>, <<"+", "0", "3">>}

NoRun == <<>>

\* every date, alone, with a trailing T, and with a full time and zone
DateCases ==
    {Case(Y, M, D, T, 0, NoRun, NoRun, NoRun, NoRun, <<>>, <<>>) :
        Y \in YearRuns, M \in MonthRuns, D \in DayRuns, T \in BOOLEAN}
    \cup
    {Case(Y, M, D, FALSE, 4, <<"0", "0">>, <<"0", "0">>, <<"0", "0">>,
          <<"0", "0", "0">>, <<"+", "0", "0", ":", "0", "0">>, <<>>) :
        Y \in YearRuns, M \in MonthRuns, D \in DayRuns}

TheDate == Case(<<"2", "0", "1", "7">>, <<"0", "4">>, <<"2", "4">>, FALSE, 0,
                NoRun, NoRun, NoRun, NoRun, <<>>, <<>>)

\* every time of day and zone after one date
TimeCases ==
    {[TheDate EXCEPT !.n = 1, !.h = h, !.z = z] :
        h \in HourRuns, z \in ZoneTokens}
    \cup
    {[TheDate EXCEPT !.n = 2, !.h = h, !.mi = mi, !.z = z] :
        h \in HourRuns, mi \in MinuteRuns, z \in ZoneTokens}
    \cup
    {[TheDate EXCEPT !.n = 3, !.h = h, !.mi = mi, !.s = s, !.z = z] :
        h \in HourRuns, mi \in MinuteRuns, s \in SecondRuns, z \in ZoneTokens}
    \cup
    {[TheDate EXCEPT !.n = 4, !.h = h, !.mi = mi, !.s = s, !.f = f, !.z = z] :
        h \in {<<"0", "9">>, <<"2", "4">>}, mi \in MinuteRuns, s \in SecondRuns,
        f \in FracRuns, z \in ZoneTokens}

\* texts that stop early or carry bytes after the last field
OddCases ==
    {Case(<<"0", "0", "0", "0">>, <<"0", "0">>, <<"0", "0">>, FALSE, 3,
          <<"0", "0">>, <<"0", "0">>, <<"0", "0">>, NoRun, <<>>, <<>>),
     [TheDate EXCEPT !.n = 3, !.h = <<"1", "0">>, !.mi = <<"2", "0">>,
                     !.s = <<"7", "0">>, !.tail = <<":">>],
     [TheDate EXCEPT !.n = 3, !.h = <<"1", "0">>, !.mi = <<"2", "0">>,
                     !.s = <<"3", "0">>, !.tail = <<":">>],
     [TheDate EXCEPT !.n = 1, !.h = <<"0", "9">>, !.z = <<"Z">>, !.tail = <<"x">>],
     [TheDate EXCEPT !.n = 1, !.h = <<"0", "9">>, !.tail = <<"x">>],
     [TheDate EXCEPT !.n = 1, !.h = <<"0", "9">>, !.z = MinusUTF8 \o <<"0", "1">>],
     [TheDate EXCEPT !.n = 1, !.h = <<"0", "9">>, !.tail = <<"T">>],
     [TheDate EXCEPT !.n = 2, !.h = <<"0", "9">>, !.mi = <<"4", "1">>, !.tail = <<".">>],
     [TheDate EXCEPT !.D = <<"2", "4", ":">>],
     [TheDate EXCEPT !.D = <<"2", "4", "-">>],
     [TheDate EXCEPT !.D = <<"2", "4", "+", "0", "1">>],
     [TheDate EXCEPT !.n = 4, !.h = <<"0", "9">>, !.mi = <<"4", "1">>,
                     !.s = <<"3", "4">>, !.f = <<"5">>, !.tail = <<":">>]}

\* the bytes put after a Z
ZTails == {<<"x">>, <<"0">>, <<"Z">>, <<" ">>, <<"+", "0", "1">>}

TheTime == [TheDate EXCEPT !.h = <<"0", "9">>, !.mi = <<"4", "1">>,
                           !.s = <<"3", "4">>, !.f = <<"5", "0", "2">>]

\* a Z after the hour, the minute, the second or the fraction, then more bytes
ZTailCases ==
    {[TheTime EXCEPT !.n = n, !.z = <<"Z">>, !.tail = tail] :
        n \in 1..4, tail \in ZTails}

\* texts that end after the year or after the month
ShortDateCases ==
    {[TheDate EXCEPT !.nd = 1, !.Y = Y, !.M = NoRun, !.D = NoRun] :
        Y \in YearRuns}
    \cup
    {[TheDate EXCEPT !.nd = 2, !.Y = Y, !.M = M, !.D = NoRun] :
        Y \in YearRuns, M \in MonthRuns}

\* the bytes met at each cursor: the delimiters and bytes that are none
MetBytes == {"T", ".", ":", "+", "-", "Z", "x", " ", "E2"}

\* one byte, and what may follow it, after a text that ends with the cursor
\* at year, month, day, hour, minute, second or fraction
MetByteCases ==
    {[TheTime EXCEPT !.nd = k[1], !.n = k[2], !.tail = <<b>> \o more] :
        k \in {<<1, 0>>, <<2, 0>>, <<3, 0>>, <<3, 1>>, <<3, 2>>, <<3, 3>>, <<3, 4>>},
        b \in MetBytes, more \in {<<>>, <<"0", "1">>}}

ParseCases ==
    DateCases \cup TimeCases \cup OddCases \cup ZTailCases \cup ShortDateCases
        \cup MetByteCases

----------------------------------------------------------------------------
(* Parse, one loop iteration at a time *)

Init ==
    /\ src \in ParseCases
    /\ inp = Render(src)
    /\ st = ScanInit
    /\ pc = "scan"
    /\ res = None
    /\ x = ZeroTime
    /\ format = RFC3339Nano
    /\ text = <<>>
    /\ dest = ZeroTime

\* the body of the loop, on the byte at i, when it neither returns nor breaks
ScanByte ==
    /\ pc = "scan"
    /\ Scanning(st, inp)
    /\ ScanStep(st, inp).status = "scan"
    /\ st' = ScanStep(st, inp)
    /\ UNCHANGED <<pc, src, inp, res, x, format, text, dest>>

\* the iteration that hands the rest of the input to ParseISOZone and breaks
ScanBreak ==
    /\ pc = "scan"
    /\ Scanning(st, inp)
    /\ ScanStep(st, inp).status = "break"
    /\ st' = ScanStep(st, inp)
    /\ UNCHANGED <<pc, src, inp, res, x, format, text, dest>>

\* the iteration that returns an error
ScanFail ==
    /\ pc = "scan"
    /\ Scanning(st, inp)
    /\ ScanStep(st, inp).status = "err"
    /\ st' = ScanStep(st, inp)
    /\ res' = ParseErr(st'.err, st'.char)
    /\ pc' = "done"
    /\ UNCHANGED <<src, inp, x, format, text, dest>>

\* the loop is left: capture, precision, validation, Date
ScanEnd ==
    /\ pc = "scan"
    /\ ~Scanning(st, inp)
    /\ st' = CaptureRemaining(st)
    /\ res' = PostScan(st, inp)
    /\ pc' = "done"
    /\ UNCHANGED <<src, inp, x, format, text, dest>>

Next == ScanByte \/ ScanBreak \/ ScanFail \/ ScanEnd

Spec == Init /\ [][Next]_vars

----------------------------------------------------------------------------
(* ParseISOZone on a zone token, called directly and through Parse *)

InitZone ==
    /\ inp \in ZoneInputs
    /\ pc = "zone"
    /\ src = None
    /\ st = ScanInit
    /\ res = None
    /\ x = ZeroTime
    /\ format = RFC3339Nano
    /\ text = <<>>
    /\ dest = ZeroTime

CallParseISOZone ==
    /\ pc = "zone"
    /\ res' = ParseISOZone(inp)
    /\ pc' = "zone_done"
    /\ UNCHANGED <<src, inp, st, x, format, text, dest>>

\* Parse on the date-time ZoneBody followed by the token; a token that starts
\* with a digit would only lengthen the fraction and never reach the zone parser
CallParse ==
    /\ pc = "zone"
    /\ Len(inp) > 0
    /\ inp[1] \notin Digits
    /\ res' = Parse(ZoneBody \o inp)
    /\ pc' = "parse_done"
    /\ UNCHANGED <<src, inp, st, x, format, text, dest>>

NextZone == CallParseISOZone \/ CallParse

SpecZone == InitZone /\ [][NextZone]_vars

----------------------------------------------------------------------------
(* Marshal a Time, unmarshal the bytes, marshal the outcome again *)

\* zone offsets in seconds east of UTC: whole hours, half hours, an offset
\* with seconds (ParseISOZone("+05:01:01")), less than a minute west, and
\* the offset ParseISOZone("+99:99") returns
Offsets == {0, 3600, 0 - 3600, 19800, 0 - 1800, 18061, 0 - 30, 362340}

Nanos == {0, 1, 5000000, 120000000, 123456789, 999999999}

Times ==
    {MkTime(Y, md[1], md[2], h, 5, s, ns, FixedZone(<<>>, off)) :
        Y \in {0 - 1, 0, 2017, 9999, 10000}, md \in {<<2, 28>>, <<12, 1>>},
        h \in {0, 23}, s \in {0, 59}, ns \in Nanos, off \in Offsets}

InitCodec ==
    /\ x \in Times
    /\ format \in Formats
    /\ pc = "marshal"
    /\ text = <<>>
    /\ dest = ZeroTime
    /\ res = None
    /\ src = None
    /\ inp = <<>>
    /\ st = ScanInit

DoMarshalText ==
    /\ pc = "marshal"
    /\ res' = MarshalText(x, format)
    /\ text' = res'.bytes
    /\ pc' = IF res'.err = "nil" THEN "text" ELSE "failed"
    /\ UNCHANGED <<src, inp, st, x, format, dest>>

DoMarshalJSON ==
    /\ pc = "marshal"
    /\ res' = MarshalJSON(x, format)
    /\ text' = res'.bytes
    /\ pc' = IF res'.err = "nil" THEN "json" ELSE "failed"
    /\ UNCHANGED <<src, inp, st, x, format, dest>>

DoUnmarshalText ==
    /\ pc = "text"
    /\ LET r == UnmarshalText(dest, text)
       IN  /\ res' = [err |-> r.err, bytes |-> <<>>]
           /\ dest' = r.dest
    /\ pc' = "text_decoded"
    /\ UNCHANGED <<src, inp, st, x, format, text>>

DoUnmarshalJSON ==
    /\ pc = "json"
    /\ LET r == UnmarshalJSON(dest, text)
       IN  /\ res' = [err |-> r.err, bytes |-> <<>>]
           /\ dest' = r.dest
    /\ pc' = "json_decoded"
    /\ UNCHANGED <<src, inp, st, x, format, text>>

\* the decoded value is marshalled in its turn
DoRemarshalText ==
    /\ pc = "text_decoded"
    /\ res.err = "nil"
    /\ res' = MarshalText(dest, format)
    /\ pc' = "text_again"
    /\ UNCHANGED <<src, inp, st, x, format, text, dest>>

DoRemarshalJSON ==
    /\ pc = "json_decoded"
    /\ res.err = "nil"
    /\ res' = MarshalJSON(dest, format)
    /\ pc' = "json_again"
    /\ UNCHANGED <<src, inp, st, x, format, text, dest>>

NextCodec ==
    \/ DoMarshalText
    \/ DoMarshalJSON
    \/ DoUnmarshalText
    \/ DoUnmarshalJSON
    \/ DoRemarshalText
    \/ DoRemarshalJSON

SpecCodec == InitCodec /\ [][NextCodec]_vars

----------------------------------------------------------------------------
(* UnmarshalJSON, UnmarshalText, Parse and ParseISOZone on arbitrary bytes *)

NullAlphabet == {"n", "u", "l", "x"}

\* the 4-byte inputs that share any number of positions with null
NullLike == {<<a, b, c, e>> : a \in NullAlphabet, b \in NullAlphabet,
                              c \in NullAlphabet, e \in NullAlphabet}

ShortDate == <<"2", "0", "0", "1", "-", "1", "1", "-", "1", "3">>

Quote == <<"\"">>

OddBytes ==
    {<<>>, Quote, Quote \o Quote, <<"n", "u", "l">>, <<"n", "u", "l", "l", "l">>,
     <<"t", "r", "u", "e">>, <<"1", "2", "3">>, <<"1", "2", "3", "4">>,
     ShortDate, Quote \o ShortDate \o Quote, Quote \o ShortDate, ShortDate \o Quote,
     Quote \o <<"a", "l">> \o Quote, Quote \o <<"n", "u", "l", "l">> \o Quote,
     Quote \o <<"2", "0", "0", "1", "-", "1", "3", "-", "1", "3">> \o Quote,
     Quote \o ZoneBody \o <<"+", "0", "1", ":", "0", "0">> \o Quote,
     Quote \o ZoneBody \o <<"-", "0", "0">> \o Quote,
     ZoneBody \o <<"Z">>, ZoneBody \o <<"Z", "Z">>, ZoneBody \o MinusUTF8 \o <<"0", "1">>,
     <<"Z">>, <<"+">>, <<"+", "0", "1", ":", "0", "0">>, MinusUTF8, <<"E2">>,
     <<"AA", "BB">>, <<" ">>, <<"x">>}

DecodeInputs == NullLike \cup OddBytes

\* the values the destination holds before the call
DestTimes ==
    {ZeroTime,
     MkTime(2017, 4, 24, 9, 41, 34, 502000000, FixedZone(<<"+", "0", "1">>, 3600))}

InitDecode ==
    /\ inp \in DecodeInputs
    /\ x \in DestTimes
    /\ dest = x
    /\ pc = "decode"
    /\ res = None
    /\ src = None
    /\ st = ScanInit
    /\ format = RFC3339Nano
    /\ text = <<>>

DecodeJSON ==
    /\ pc = "decode"
    /\ LET r == UnmarshalJSON(dest, inp)
       IN  /\ res' = [err |-> r.err, parsed |-> UnmarshalJSONParses(inp)]
           /\ dest' = r.dest
    /\ pc' = "json_called"
    /\ UNCHANGED <<src, inp, st, x, format, text>>

DecodeText ==
    /\ pc = "decode"
    /\ LET r == UnmarshalText(dest, inp)
       IN  /\ res' = [err |-> r.err, parsed |-> TRUE]
           /\ dest' = r.dest
    /\ pc' = "text_called"
    /\ UNCHANGED <<src, inp, st, x, format, text>>

ParseBytes ==
    /\ pc = "decode"
    /\ res' = Parse(inp)
    /\ pc' = "parse_called"
    /\ UNCHANGED <<src, inp, st, x, format, text, dest>>

ZoneBytes ==
    /\ pc = "decode"
    /\ res' = ParseISOZone(inp)
    /\ pc' = "zone_called"
    /\ UNCHANGED <<src, inp, st, x, format, text, dest>>

NextDecode == DecodeJSON \/ DecodeText \/ ParseBytes \/ ZoneBytes

SpecDecode == InitDecode /\ [][NextDecode]_vars

----------------------------------------------------------------------------
(* What the texts mean, read off their descriptions *)

RECURSIVE DecVal(_)
DecVal(ds) ==
    IF ds = <<>> THEN 0
    ELSE DecVal(SubSeq(ds, 1, Len(ds) - 1)) * 10 + DigitVal(ds[Len(ds)])

RECURSIVE Pow10(_)
Pow10(k) == IF k <= 0 THEN 1 ELSE 10 * Pow10(k - 1)

IsRun(ds) == Len(ds) > 0 /\ \A k \in 1..Len(ds) : ds[k] \in Digits

RefLeap(Y) == (Y % 400 = 0) \/ (Y % 4 = 0 /\ Y % 100 # 0)

RefMonthDays == <<31, 28, 31, 30, 31, 30, 31, 31, 30, 31, 30, 31>>

RefDaysIn(M, Y) ==
    IF M \notin 1..12 THEN 0
    ELSE IF M = 2 /\ RefLeap(Y) THEN 29
    ELSE RefMonthDays[M]

RefNanos(f) == DecVal(f) * Pow10(9 - Len(f))

\* the sign a zone token starts with, "none" if it starts with no sign
RefSign(z) ==
    IF Len(z) > 0 /\ z[1] \in {"+", "-"} THEN z[1]
    ELSE IF Len(z) >= 3 /\ SubSeq(z, 1, 3) = MinusUTF8 THEN "U+2212"
    ELSE "none"

RefSignLen(z) == IF RefSign(z) = "U+2212" THEN 3 ELSE 1

\* the bytes after the sign
RefAfterSign(z) == SubSeq(z, RefSignLen(z) + 1, Len(z))

NotColon(b) == b # ":"

\* the digits of the groups, the colons left out
RefGroups(z) == SelectSeq(RefAfterSign(z), NotColon)

RefPair(g, k) == IF Len(g) >= 2 * k THEN DecVal(SubSeq(g, 2 * k - 1, 2 * k)) ELSE 0

RefOffset(z) ==
    IF RefSign(z) = "none" THEN 0
    ELSE LET g   == RefGroups(z)
             mag == RefPair(g, 1) * 3600 + RefPair(g, 2) * 60 + RefPair(g, 3)
         IN  IF RefSign(z) = "+" THEN mag ELSE 0 - mag

\* a sign followed by the groups hh, hh mm or hh mm ss
IsSignedGroups(z) ==
    /\ RefSign(z) # "none"
    /\ IsRun(RefGroups(z))
    /\ Len(RefGroups(z)) \in {2, 4, 6}

Shape(b) == [k \in 1..Len(b) |-> IF b[k] \in Digits THEN "d" ELSE b[k]]

\* the spellings the documentation of ParseISOZone lists and its examples use
ZoneShapes ==
    {<<"d", "d">>, <<"d", "d", "d", "d">>, <<"d", "d", ":", "d", "d">>,
     <<"d", "d", ":", "d", "d", ":", "d", "d">>}

WellFormedZone(z) ==
    \/ z = <<>>
    \/ z = <<"Z">>
    \/ /\ RefSign(z) \in {"+", "-"}
       /\ Shape(RefAfterSign(z)) \in ZoneShapes
       /\ ~(RefSign(z) = "-" /\ RefOffset(z) = 0)

WellFormedDate(c) ==
    /\ IsRun(c.Y) /\ IsRun(c.M) /\ IsRun(c.D)
    /\ DecVal(c.M) \in 1..12
    /\ DecVal(c.D) \in 1..RefDaysIn(DecVal(c.M), DecVal(c.Y))

WellFormedTime(c) ==
    /\ c.n >= 1 => IsRun(c.h) /\ DecVal(c.h) <= 23
    /\ c.n >= 2 => IsRun(c.mi) /\ DecVal(c.mi) <= 59
    /\ c.n >= 3 => IsRun(c.s) /\ DecVal(c.s) <= 59
    /\ c.n >= 4 => IsRun(c.f) /\ Len(c.f) <= 9

Written(c, k, run) == IF c.n >= k THEN DecVal(run) ELSE 0

----------------------------------------------------------------------------
(* Parse on well-formed and on out-of-range texts *)

ZeroDateText ==
    <<"0", "0", "0", "0", "-", "0", "0", "-", "0", "0", "T",
      "0", "0", ":", "0", "0", ":", "0", "0">>

\* C1: a well-formed text Y-M-DTh[:m[:s[.f]]], followed by nothing, by Z or
\* by a well-formed zone token, parses without error, and the Time has the
\* decimal values of the digit runs as its fields (0 for a field not
\* written), the fraction scaled to nanoseconds, and the offset of the zone
\* token (0 for Z and for no zone).
C1_WellFormedParses ==
    (/\ pc = "done"
     /\ src.n >= 1
     /\ src.tail = <<>>
     /\ WellFormedDate(src)
     /\ WellFormedTime(src)
     /\ WellFormedZone(src.z))
    => /\ res.err = "nil"
       /\ res.time.Year = DecVal(src.Y)
       /\ res.time.Month = DecVal(src.M)
       /\ res.time.Day = DecVal(src.D)
       /\ res.time.Hour = DecVal(src.h)
       /\ res.time.Minute = Written(src, 2, src.mi)
       /\ res.time.Second = Written(src, 3, src.s)
       /\ res.time.Nanosecond = (IF src.n >= 4 THEN RefNanos(src.f) ELSE 0)
       /\ res.time.loc.offset = RefOffset(src.z)

C1_Witness ==
    /\ pc = "done"
    /\ src.n = 4
    /\ src.tail = <<>>
    /\ WellFormedDate(src)
    /\ WellFormedTime(src)
    /\ src.z = <<"+", "0", "5", ":", "0", "1", ":", "0", "1">>
    /\ Len(src.f) = 8
    /\ res.err = "nil"
    /\ res.time.Second = 34
    /\ res.time.Nanosecond = 893125230
    /\ res.time.loc.offset = 18061

\* the fields Parse validates, in the order it validates them, with the
\* values the scan left in them and their bounds
C2_Field(s, k) ==
    CASE k = 1 -> [elem |-> "month", val |-> s.M, lo |-> 1, hi |-> 12]
      [] k = 2 -> [elem |-> "day", val |-> s.d, lo |-> 1, hi |-> RefDaysIn(s.M, s.Y)]
      [] k = 3 -> [elem |-> "hour", val |-> s.h, lo |-> 0, hi |-> 23]
      [] k = 4 -> [elem |-> "minute", val |-> s.m, lo |-> 0, hi |-> 59]
      [] k = 5 -> [elem |-> "second", val |-> s.s, lo |-> 0, hi |-> 59]

C2_Failing(s) ==
    {k \in 1..5 : C2_Field(s, k).val < C2_Field(s, k).lo
                    \/ C2_Field(s, k).val > C2_Field(s, k).hi}

C2_First(s) == CHOOSE k \in C2_Failing(s) : \A j \in C2_Failing(s) : k <= j

C3_DayWithinMonth ==
    (/\ pc = "done"
     /\ src.tail = <<>>
     /\ IsRun(src.Y) /\ IsRun(src.M) /\ IsRun(src.D)
     /\ DecVal(src.M) \in 1..12
     /\ WellFormedTime(src)
     /\ WellFormedZone(src.z))
    => LET days == RefDaysIn(DecVal(src.M), DecVal(src.Y))
           ok   == 1 <= DecVal(src.D) /\ DecVal(src.D) <= days
       IN  /\ (res.err = "nil") <=> ok
           /\ ~ok => /\ res.err = "RangeError"
                     /\ res.elem = "day"
                     /\ res.given = DecVal(src.D)
                     /\ res.min = 1
                     /\ res.max = days

C3_Witness ==
    /\ pc = "done"
    /\ DecVal(src.Y) = 1900
    /\ DecVal(src.M) = 2
    /\ DecVal(src.D) = 29
    /\ src.n = 4
    /\ res.err = "RangeError"
    /\ res.elem = "day"
    /\ res.max = 28

\* C4: a text that ends after a valid date (with or without a trailing T),
\* or after the hour, minute, second or fraction, with no zone introducer,
\* parses without error; each time field the scan did not reach is 0 and
\* the zone is UTC.
C4_MissingFieldsZeroAndUTC ==
    (/\ pc = "done"
     /\ src.tail = <<>>
     /\ src.z = <<>>
     /\ WellFormedDate(src)
     /\ WellFormedTime(src))
    => /\ res.err = "nil"
       /\ res.time.loc = UTC
       /\ src.n < 1 => res.time.Hour = 0
       /\ src.n < 2 => res.time.Minute = 0
       /\ src.n < 3 => res.time.Second = 0
       /\ src.n < 4 => res.time.Nanosecond = 0

C4_Witness ==
    /\ pc = "done"
    /\ src.n = 0
    /\ ~src.T
    /\ src.z = <<>>
    /\ res.err = "nil"
    /\ res.time = MkTime(2020, 2, 29, 0, 0, 0, 0, UTC)

----------------------------------------------------------------------------
(* Marshal, then unmarshal, then marshal again *)

SameFields(a, b) ==
    /\ a.Year = b.Year /\ a.Month = b.Month /\ a.Day = b.Day
    /\ a.Hour = b.Hour /\ a.Minute = b.Minute /\ a.Second = b.Second
    /\ a.Nanosecond = b.Nanosecond
    /\ a.loc.offset = b.loc.offset

\* the resolution of a format in nanoseconds
Resolution(f) == Pow10(9 - FracDigits(f))

\* C5: for a Time x with year in [0,9999], Parse of the text MarshalText
\* produces under RFC3339Nano succeeds and returns the year, month, day,
\* hour, minute, second, nanosecond and zone offset of x.
C5_NanoRoundTrip ==
    (pc = "text_decoded" /\ format = RFC3339Nano)
    => (res.err = "nil" /\ SameFields(dest, x))

\* C6: for each format, marshalling x (year in [0,9999]) as text or JSON and
\* unmarshalling the output succeeds and yields x truncated to the
\* resolution of the format.
C6_RoundTripTruncates ==
    pc \in {"text_decoded", "json_decoded"}
    => (res.err = "nil" /\ SameFields(dest, Truncate(x, Resolution(format))))

\* C7: for every format and every x that encodes without error, the decoded
\* text encodes to exactly the text of the first encoding.
C7_EncodeIdempotent ==
    /\ pc \in {"text_decoded", "json_decoded"} => res.err = "nil"
    /\ pc \in {"text_again", "json_again"} => (res.err = "nil" /\ res.bytes = text)

----------------------------------------------------------------------------
(* ParseISOZone *)

\* C8: an accepted zone token made of a sign and the groups hh, hh mm or
\* hh mm ss yields the offset sign * (hh*3600 + mm*60 + ss), negative for
\* '-' and U+2212, positive for '+', under the name of the whole input; the
\* input Z yields UTC.
C8_OffsetAndName ==
    pc = "zone_done"
    => /\ inp = <<"Z">> => (res.err = "nil" /\ res.loc = UTC)
       /\ (res.err = "nil" /\ IsSignedGroups(inp))
          => (res.loc.offset = RefOffset(inp) /\ res.loc.name = inp)

C8_Witness ==
    /\ pc = "zone_done"
    /\ RefSign(inp) = "U+2212"
    /\ RefAfterSign(inp) = <<"0", "1", ":", "1", "0", ":", "0", "1">>
    /\ res.err = "nil"
    /\ res.loc.offset = 0 - 4201
    /\ res.loc.name = inp

ZeroGroups ==
    {<<"0", "0">>, <<"0", "0", "0", "0">>, <<"0", "0", ":", "0", "0">>,
     <<"0", "0", ":", "0", "0", ":", "0", "0">>}

\* C9: a zone token with a negative sign and all groups zero, in each of the
\* spellings 00, 0000, 00:00 and 00:00:00, is refused with the invalid-zone
\* error by ParseISOZone, and by Parse when it hands the token over; with
\* '+' the same tokens are accepted with offset 0.
C9_NegativeZeroRefused ==
    /\ (pc = "zone_done" /\ RefSign(inp) \in {"-", "U+2212"}
                         /\ RefAfterSign(inp) \in ZeroGroups)
       => res.err = "ErrInvalidZone"
    /\ (pc = "parse_done" /\ RefSign(inp) = "-" /\ RefAfterSign(inp) \in ZeroGroups)
       => res.err = "ErrInvalidZone"
    /\ (pc = "zone_done" /\ RefSign(inp) = "+" /\ RefAfterSign(inp) \in ZeroGroups)
       => (res.err = "nil" /\ res.loc.offset = 0)
    /\ (pc = "parse_done" /\ RefSign(inp) = "+" /\ RefAfterSign(inp) \in ZeroGroups)
       => (res.err = "nil" /\ res.time.loc.offset = 0)

C9_Witness ==
    /\ pc = "parse_done"
    /\ inp = <<"-", "0", "0", ":", "0", "0", ":", "0", "0">>
    /\ res.err = "ErrInvalidZone"

\* C10 as stated: with a sign first, fewer than 3 bytes after the sign make
\* ParseISOZone fail with ErrZoneTooShort.
C10_ShortAfterSign ==
    (pc = "zone_done" /\ RefSign(inp) # "none" /\ Len(RefAfterSign(inp)) < 3)
    => res.err = "ErrZoneTooShort"

\* C10 amended: with a sign first, an input of fewer than 3 bytes, the sign
\* included, makes ParseISOZone fail with ErrZoneTooShort.
C10_ShortInput ==
    (pc = "zone_done" /\ RefSign(inp) # "none" /\ Len(inp) < 3)
    => res.err = "ErrZoneTooShort"

C10_Witness ==
    /\ pc = "zone_done"
    /\ inp = <<"-", "1">>
    /\ res.err = "ErrZoneTooShort"

\* the number of groups of at most 2 digits the bytes b hold, a colon ending
\* the group before it; run is the number of digits since the last colon
RECURSIVE RefGroupCount(_, _)
RefGroupCount(b, run) ==
    IF b = <<>> THEN (run + 1) \div 2
    ELSE IF b[1] = ":" THEN (run + 1) \div 2 + RefGroupCount(Tail(b), 0)
    ELSE RefGroupCount(Tail(b), run + 1)

\* only digits and colons, and a colon only after the first or the second
\* group (index 2 or 5 of the bytes after the sign)
DigitsAndPlacedColons(b) ==
    \A k \in 1..Len(b) : b[k] \in Digits \/ (b[k] = ":" /\ k \in {3, 6})

\* C11: a zone token that starts with a sign and goes on with digits and
\* correctly placed colons only, holding more groups than three or a group
\* of more than 2 digits (so that three groups of at most 2 digits cannot
\* take its digits), makes ParseISOZone fail with ErrZoneTooLong.
C11_TooLongReported ==
    (/\ pc = "zone_done"
     /\ RefSign(inp) # "none"
     /\ DigitsAndPlacedColons(RefAfterSign(inp))
     /\ RefGroupCount(RefAfterSign(inp), 0) > 3)
    => res.err = "ErrZoneTooLong"

----------------------------------------------------------------------------
(* Parse: the terminators Z and ':' and the end of the input *)

\* C12: a Z met with the cursor at hour, minute, second or fraction stores
\* the accumulator into that field (the fields closed before keep their
\* values) and leaves the zone UTC; when a byte follows the Z, Parse fails
\* with ErrRemainingData, and when none follows it does not, and a Time it
\* returns is in UTC.
C12_ZClosesField ==
    (/\ pc = "done"
     /\ src.z = <<"Z">>
     /\ src.n >= 1
     /\ IsRun(src.Y) /\ IsRun(src.M) /\ IsRun(src.D))
    => /\ st.p = hour + src.n - 1
       /\ st.h = DecVal(src.h)
       /\ src.n >= 2 => st.m = DecVal(src.mi)
       /\ src.n >= 3 => st.s = DecVal(src.s)
       /\ src.n >= 4 => st.fraction = DecVal(src.f)
       /\ st.c = 0
       /\ st.loc = UTC
       /\ src.tail # <<>> => res.err = "ErrRemainingData"
       /\ src.tail = <<>> => /\ res.err # "ErrRemainingData"
                             /\ res.err = "nil" => res.time.loc = UTC

C12_Witness ==
    /\ pc = "done"
    /\ src.n = 4
    /\ src.z = <<"Z">>
    /\ src.tail = <<"0">>
    /\ st.fraction = 502
    /\ st.p = millisecond
    /\ res.err = "ErrRemainingData"

----------------------------------------------------------------------------
(* UnmarshalJSON: null, and bytes that are no JSON string *)

NullToken == <<"n", "u", "l", "l">>

\* a value wrapped in a pair of double quotes
RefQuoted(b) == Len(b) >= 2 /\ b[1] = "\"" /\ b[Len(b)] = "\""

\* C13: UnmarshalJSON of exactly the 4 bytes null returns no error and
\* leaves the destination as it was before the call, whatever it held.
C13_NullLeavesDestination ==
    (pc = "json_called" /\ inp = NullToken) => (res.err = "nil" /\ dest = x)

C13_Witness ==
    /\ pc = "json_called"
    /\ inp = NullToken
    /\ x.Year = 2017
    /\ dest = x
    /\ res.err = "nil"

\* C14: for bytes that are neither exactly null nor wrapped in a pair of
\* double quotes, UnmarshalJSON fails with ErrNotString, does not reach its
\* call of Parse and leaves the destination unchanged.
C14_NotStringRefused ==
    (pc = "json_called" /\ inp # NullToken /\ ~RefQuoted(inp))
    => (res.err = "ErrNotString" /\ ~res.parsed /\ dest = x)

----------------------------------------------------------------------------
(* MarshalText and MarshalJSON: the range of the year *)

\* C15: MarshalText and MarshalJSON return an error and no bytes exactly
\* when the calendar year of the Time is below 0 or above 9999, and succeed
\* otherwise; the bytes of MarshalJSON are then those of MarshalText between
\* two double quotes.
C15_YearRange ==
    /\ pc \in {"text", "json", "failed"}
       => (pc = "failed" <=> (x.Year < 0 \/ x.Year > 9999))
    /\ pc = "failed" => (res.err # "nil" /\ res.bytes = <<>>)
    /\ pc \in {"text", "json"} => (res.err = "nil" /\ res.bytes # <<>>)
    /\ pc = "json"
       => /\ MarshalText(x, format).err = "nil"
          /\ res.bytes = <<"\"">> \o MarshalText(x, format).bytes \o <<"\"">>

C15_Witness ==
    /\ pc = "failed"
    /\ x.Year = 10000
    /\ res.err # "nil"
    /\ res.bytes = <<>>

----------------------------------------------------------------------------
(* One outcome per call *)

Aborted(e) == e = "panic: slice bounds out of range"

\* C16: on every byte sequence, the empty one and a lone double quote
\* included, Parse, ParseISOZone, UnmarshalText and UnmarshalJSON return
\* normally; a call that returns an error returns no value with it (the zero
\* Time, no location, a destination left as it was or zeroed).
C16_OneOutcome ==
    /\ pc \in {"json_called", "text_called", "parse_called", "zone_called"}
       => ~Aborted(res.err)
    /\ (pc = "parse_called" /\ res.err # "nil") => res.time = ZeroTime
    /\ (pc = "zone_called" /\ res.err # "nil") => res.loc = NoLocation
    /\ (pc \in {"json_called", "text_called"} /\ res.err # "nil")
       => dest \in {x, ZeroTime}

----------------------------------------------------------------------------
(* Parse: the precision of the fraction *)

\* C17: on a text that is well-formed but for the length of its fraction,
\* Parse fails with ErrPrecision when the fraction has more than 9 digits,
\* whatever the digits; when Parse succeeds, the fraction has at most 9
\* digits and the nanoseconds are the value of the written fraction.
C17_PrecisionRefused ==
    (/\ pc = "done"
     /\ src.n = 4
     /\ src.tail = <<>>
     /\ WellFormedDate(src)
     /\ IsRun(src.h) /\ DecVal(src.h) <= 23
     /\ IsRun(src.mi) /\ DecVal(src.mi) <= 59
     /\ IsRun(src.s) /\ DecVal(src.s) <= 59
     /\ WellFormedZone(src.z))
    => /\ Len(src.f) > 9 => res.err = "ErrPrecision"
       /\ res.err = "nil" => /\ Len(src.f) <= 9
                             /\ res.time.Nanosecond = RefNanos(src.f)

----------------------------------------------------------------------------
(* Parse: ':' at the second, U+2212, and the end of the input *)

\* C18: in a text Y-M-DTh:m:s: the ':' met with the cursor at second stores
\* the accumulator into the second field and leaves the minute stored at
\* the ':' before it; the cursor moves on to the fraction, and a Time that
\* is returned has minute m and second s.
C18_ColonStoresSecond ==
    (/\ pc = "done"
     /\ src.n = 3
     /\ src.z = <<>>
     /\ src.tail = <<":">>
     /\ IsRun(src.Y) /\ IsRun(src.M) /\ IsRun(src.D)
     /\ IsRun(src.h) /\ IsRun(src.mi) /\ IsRun(src.s))
    => /\ st.p = millisecond
       /\ st.m = DecVal(src.mi)
       /\ st.s = DecVal(src.s)
       /\ res.err = "nil" => /\ res.time.Minute = DecVal(src.mi)
                             /\ res.time.Second = DecVal(src.s)

\* C19: after the date-time ZoneBody, a zone token that starts with U+2212
\* gives Parse the outcome the same token gives with '-' for its sign: the
\* same error, or the same fields and the same offset.
C19_UnicodeMinusAsHyphen ==
    (pc = "parse_done" /\ RefSign(inp) = "U+2212")
    => LET hyphen == Parse(ZoneBody \o <<"-">> \o RefAfterSign(inp))
       IN  /\ res.err = hyphen.err
           /\ res.char = hyphen.char
           /\ SameFields(res.time, hyphen.time)

\* the digit run a text without zone and without tail ends in
C20_LastRun(c) ==
    IF c.n = 4 THEN c.f ELSE IF c.n = 3 THEN c.s ELSE IF c.n = 2 THEN c.mi
    ELSE IF c.n = 1 THEN c.h ELSE IF c.nd = 3 THEN c.D
    ELSE IF c.nd = 2 THEN c.M ELSE c.Y

\* the field the cursor names when that text ends
C20_LastField(c, s) ==
    IF c.n = 4 THEN s.fraction ELSE IF c.n = 3 THEN s.s ELSE IF c.n = 2 THEN s.m
    ELSE IF c.n = 1 THEN s.h ELSE IF c.nd = 3 THEN s.d
    ELSE IF c.nd = 2 THEN s.M ELSE s.Y

\* C20: when the text ends in a digit run that no delimiter closes, the
\* value of the run is in the field the cursor names once the loop is left,
\* for the cursor at year, month, day, hour, minute, second and fraction;
\* so a text Y-M with M in 1..12 is not refused for its month.
C20_EndStoresOpenField ==
    (/\ pc = "done"
     /\ src.z = <<>>
     /\ src.tail = <<>>
     /\ ~src.T
     /\ IsRun(src.Y)
     /\ src.nd >= 2 => IsRun(src.M)
     /\ src.nd >= 3 => IsRun(src.D)
     /\ src.n >= 1 => IsRun(src.h)
     /\ src.n >= 2 => IsRun(src.mi)
     /\ src.n >= 3 => IsRun(src.s)
     /\ src.n >= 4 => IsRun(src.f))
    => /\ C20_LastField(src, st) = DecVal(C20_LastRun(src))
       /\ (src.nd = 2 /\ DecVal(src.M) \in 1..12)
          => ~(res.err = "RangeError" /\ res.elem = "month")

----------------------------------------------------------------------------
(* ParseISOZone: the spellings without colons *)

\* C21: a sign followed by one, two or three 2-digit groups written without
\* colons (hh, hhmm, hhmmss), the negative zero apart, is accepted by
\* ParseISOZone with the offset sign * (hh*3600 + mm*60 + ss), the offset of
\* the spelling with colons.
C21_ColonFreeAccepted ==
    (/\ pc = "zone_done"
     /\ RefSign(inp) # "none"
     /\ IsRun(RefAfterSign(inp))
     /\ Len(RefAfterSign(inp)) \in {2, 4, 6}
     /\ ~(RefSign(inp) # "+" /\ RefOffset(inp) = 0))
    => (res.err = "nil" /\ res.loc.offset = RefOffset(inp))

----------------------------------------------------------------------------
(* Parse: the fraction as nanoseconds *)

\* the number of fraction digits of a text: 0 when it has no fraction
C22_FracDigits(c) == IF c.n >= 4 THEN Len(c.f) ELSE 0

\* C22: when Parse accepts a text with k fraction digits, 0 <= k <= 9, of
\* decimal value c, the nanosecond of the Time is c * 10^(9-k), a value in
\* [0, 10^9): .5 gives 500000000, .009 gives 9000000 and .89312523 gives
\* 893125230.
C22_FractionScaled ==
    (/\ pc = "done"
     /\ res.err = "nil"
     /\ src.tail = <<>>
     /\ C22_FracDigits(src) <= 9)
    => /\ res.time.Nanosecond
            = (IF src.n >= 4 THEN DecVal(src.f) * Pow10(9 - Len(src.f)) ELSE 0)
       /\ res.time.Nanosecond >= 0
       /\ res.time.Nanosecond < 1000000000
       /\ src.f = <<"5">> => res.time.Nanosecond = 500000000
       /\ src.f = <<"0", "0", "9">> => res.time.Nanosecond = 9000000
       /\ src.f = <<"8", "9", "3", "1", "2", "5", "2", "3">>
          => res.time.Nanosecond = 893125230

C22_Witness ==
    /\ pc = "done"
    /\ res.err = "nil"
    /\ src.n = 4
    /\ src.f = <<"0", "0", "9">>
    /\ src.z = <<"Z">>
    /\ src.tail = <<>>
    /\ res.time.Nanosecond = 9000000

----------------------------------------------------------------------------
(* Parse: the cursor *)

\* the delimiters that close the field at cursor p and move the cursor on
C23_Advances(b, p) ==
    \/ b = "-" /\ p \in {year, month}
    \/ b = "T" /\ p = day
    \/ b = ":" /\ p \in {hour, minute, second}
    \/ b = "." /\ p = second

\* the byte the step from the current state works on, "" when the loop is
\* left
C23_Byte == IF pc = "scan" /\ Scanning(st, inp) THEN inp[st.i + 1] ELSE ""

\* C23: the cursor starts at year; a step leaves it where it is or moves
\* it on by one, never past the fraction; it moves exactly when the step
\* consumes a delimiter that is legal at the cursor ('-' at year or month,
\* 'T' at day, ':' at hour, minute or second, '.' at second), so a digit
\* never moves it.
C23_CursorForward ==
    /\ st.p = year
    /\ [][/\ st'.p \in {st.p, st.p + 1}
          /\ st'.p <= millisecond
          /\ (st'.p = st.p + 1) <=> C23_Advances(C23_Byte, st.p)
          /\ C23_Byte \in Digits => st'.p = st.p]_vars

C23_Witness ==
    /\ pc = "done"
    /\ res.err = "nil"
    /\ st.p = millisecond
    /\ src.n = 4
    /\ st.i = Len(inp)

----------------------------------------------------------------------------
(* Parse: delimiters out of place *)

\* the cursor when the bytes of tail are met
C24_Cursor(c) == IF c.n >= 1 THEN hour + c.n - 1 ELSE c.nd - 1

\* the bytes that are not legal at cursor p
C24_Illegal(b, p) ==
    \/ b = "T" /\ p # day
    \/ b = "." /\ p # second
    \/ b = ":" /\ p \in {year, month, day, millisecond}
    \/ b \in {"+", "Z"} /\ p \in {year, month, day}
    \/ b \notin Digits \cup {"-", "+", "T", ":", ".", "Z"}

\* C24: a 'T' met at a cursor other than day, a '.' at a cursor other than
\* second, a ':' at year, month, day or fraction, a '+' or a 'Z' at year,
\* month or day, and at every cursor a byte that is neither a digit nor one
\* of - + T : . Z, make Parse fail with an UnexpectedCharacterError that
\* carries the byte.
C24_IllegalDelimiterRefused ==
    (/\ pc = "done"
     /\ src \in MetByteCases
     /\ C24_Illegal(src.tail[1], C24_Cursor(src)))
    => /\ res.err = "UnexpectedCharacterError"
       /\ res.char = src.tail[1]
       /\ st.p = C24_Cursor(src)

C24_Witness ==
    /\ pc = "done"
    /\ src \in MetByteCases
    /\ src.tail[1] = "."
    /\ C24_Cursor(src) = hour
    /\ res.err = "UnexpectedCharacterError"
    /\ res.char = "."

----------------------------------------------------------------------------
(* Parse: the bytes after the zone token *)

\* the spellings of one, two or three 2-digit groups, the colon at each
\* boundary written or not
TokenShapes ==
    ZoneShapes \cup {<<"d", "d", "d", "d", "d", "d">>,
                     <<"d", "d", ":", "d", "d", "d", "d">>,
                     <<"d", "d", "d", "d", ":", "d", "d">>}

IsToken(z) == RefSign(z) \in {"+", "-"} /\ Shape(RefAfterSign(z)) \in TokenShapes

\* a complete token followed by one or more bytes that do not make a token
\* with it
HasTrailingBytes(z) ==
    /\ ~IsToken(z)
    /\ \E k \in 1..(Len(z) - 1) : IsToken(SubSeq(z, 1, k))

\* C25: when Parse hands the rest of the text to ParseISOZone at a '+' or a
\* later '-', a text with bytes after a complete zone token is refused
\* (+01:00Z, +01:00 followed by a space, +01:00:00x), and a text that is
\* accepted is a zone token from its sign to its last byte.
C25_NoTrailingBytes ==
    (pc = "parse_done" /\ RefSign(inp) \in {"+", "-"})
    => /\ HasTrailingBytes(inp) => res.err # "nil"
       /\ res.err = "nil" => IsToken(inp)

C25_Witness ==
    /\ pc = "parse_done"
    /\ inp = <<"+", "0", "1", ":", "0", "0", "Z">>
    /\ HasTrailingBytes(inp)
    /\ res.err = "UnexpectedCharacterError"
    /\ res.char = "Z"

----------------------------------------------------------------------------
(* UnmarshalText and UnmarshalJSON: the destination after a failure *)

\* C26: a call of UnmarshalText or UnmarshalJSON that returns an error
\* leaves the destination as it was before the call, whatever the error;
\* the destination differs from its value before the call only after a nil
\* error on a payload that is not null.
C26_FailureLeavesDestination ==
    pc \in {"json_called", "text_called"}
    => /\ res.err # "nil" => dest = x
       /\ dest # x => (res.err = "nil" /\ inp # NullToken)

\* C27: for the same bytes D after the sign, ParseISOZone gives U+2212 D
\* the outcome it gives '-' D: the same error, ErrZoneTooShort included, or
\* success with the same offset.
C27_MinusLikeHyphen ==
    (pc = "zone_done" /\ RefSign(inp) = "U+2212")
    => LET hyphen == ParseISOZone(<<"-">> \o RefAfterSign(inp))
       IN  /\ res.err = hyphen.err
           /\ res.loc.offset = hyphen.loc.offset

----------------------------------------------------------------------------
(* Parse: the values handed to Date *)

====
